---- MODULE Spec2Model ----
(***************************************************************************)
(* OddsStreamClient (frontend/src/services/linera-client.ts): the session, *)
(* the batch accumulator, the dispatcher, the nonce and dispatch           *)
(* endpoints it talks to, the TTL cache, the push subscriptions and the    *)
(* chain router, as one state machine.                                     *)
(*                                                                         *)
(* One JavaScript task (a timer callback, an I/O completion, a public      *)
(* method call with the microtasks it triggers) is one action.  A fetch is *)
(* one action at the instant the endpoint serves it; the continuation that *)
(* runs in the client when the response arrives is part of that action.    *)
(***************************************************************************)
EXTENDS Integers, Sequences, FiniteSets, TLC

VARIABLES
    wallet,         \* this.wallet
    conn,           \* the connectWallet call in flight, if any
    batchQueue,     \* this.batchQueue
    batchTimer,     \* this.batchTimer: 0 is null, otherwise a timeout handle
    armed,          \* the timeout handles of setTimeout(processBatchQueue) not yet fired or cleared
    timerSeq,       \* number of flush timeouts created so far
    itemSeq,        \* number of addToBatchQueue calls so far
    calls,          \* the submitBatchedOrders invocations, by call id
    counter,        \* nonce endpoint: the current counter of each origin chain
    sent,           \* dispatch endpoint: the messages received, in order
    events,         \* window.dispatchEvent: the oddsstream:* events emitted, in order
    window,         \* history: the items enqueued since the last flush began
    flushes,        \* history: per processBatchQueue run on a non-empty queue, what it handed over
    lastFlush,      \* history: what the latest processBatchQueue run found, "empty" or "handed"
    now,            \* Date.now()
    cache,          \* this.cache
    cacheTimers,    \* the eviction timeouts of cacheData not yet fired
    lastSet,        \* history: per key, the latest cacheData call
    lastGet,        \* history: the latest getCachedData call and what it returned
    creates,        \* GraphQL endpoint: the number of markets created through createMarket
    query,          \* the latest queryMarkets call: where it is and what it returned
    sockets,        \* the WebSocket objects created by subscribe*, by creation number
    subscriptions,  \* this.subscriptions: subscription id -> socket
    lastFrame,      \* history: the frame that just arrived, and what onmessage did with it
    lastUnsub,      \* history: the unsubscribe() call that just ran, and what it changed
    rq,             \* router: the marketId getMarketChainId is asked about
    rs              \* router: what getMarketChainId returned for rq

vars == <<wallet, conn, batchQueue, batchTimer, armed, timerSeq, itemSeq, calls,
          counter, sent, events, window, flushes, lastFlush, now, cache,
          cacheTimers,
          lastSet, lastGet, creates, query, sockets, subscriptions, lastFrame,
          lastUnsub, rq, rs>>

sessionVars == <<wallet, conn>>
batchVars   == <<batchQueue, batchTimer, armed, timerSeq, itemSeq, window, flushes,
                 lastFlush, events>>
callVars    == <<calls, counter, sent>>
marketVars  == <<creates, query>>
cacheVars   == <<cache, cacheTimers, lastSet, lastGet, marketVars>>
subVars     == <<sockets, subscriptions, lastFrame, lastUnsub>>
routeVars   == <<rq, rs>>

----------------------------------------------------------------------------
\* Bounds of the model.

MaxItems  == 2      \* addToBatchQueue calls in one behaviour
MaxCalls  == 2      \* submitBatchedOrders invocations in one behaviour
MaxTimers == 2      \* flush timeouts created in one behaviour
MaxSent   == 3      \* messages the dispatch endpoint receives in one behaviour
MaxOrders == 2      \* longest order list given to a direct submitBatchedOrders
MaxIdLen  == 9      \* longest marketId the router is asked about
MaxTime   == 2      \* clock readings 0..MaxTime
MaxTtl    == 3      \* ttl arguments 1..MaxTtl
MaxPending == 2     \* eviction timeouts pending at one time
MaxSocks  == 2      \* WebSocket objects created in one behaviour
MaxUnsub  == 2      \* unsubscribe() calls on one handle
MaxCreates == 2     \* successful createMarket calls in one behaviour

\* data.nonce of a nonce response that carries no nonce field (JavaScript undefined).
Undefined == -1

----------------------------------------------------------------------------
\* Chain router.

\* String.prototype.substring(0, n)
Substring0(s, n) == SubSeq(s, 1, IF Len(s) < n THEN Len(s) ELSE n)

\* LOCAL_CONFIG.APPLICATIONS.EXAMPLE_MARKETS, the static market registry.
EXAMPLE_MARKETS ==
    { [id |-> <<"a">>, appId |-> [i \in 1..18 |-> IF i = 17 THEN "1" ELSE "p"]],
      [id |-> <<"b">>, appId |-> [i \in 1..16 |-> IF i = 16 THEN "2" ELSE "p"]],
      [id |-> <<"a", "b", "a">>, appId |-> <<"q">>] }

\* Array.prototype.find on the registry: the entries whose id is marketId.
RegistryFind(marketId) == {m \in EXAMPLE_MARKETS : m.id = marketId}

getMarketChainId_NoTruncation(marketId) ==
    LET found == RegistryFind(marketId) IN
    IF found = {}
    THEN <<"chain-", "fallback-">> \o marketId
    ELSE <<"chain-">> \o Substring0((CHOOSE m \in found : TRUE).appId, 16)

\* getMarketChainId: `chain-${appId.substring(0, 16)}` for a registered market,
\* `chain-fallback-${marketId.substring(0, 8)}` otherwise.
getMarketChainId(marketId) ==
    LET found == RegistryFind(marketId) IN
    IF found = {}
    THEN <<"chain-", "fallback-">> \o Substring0(marketId, 8)
    ELSE <<"chain-">> \o Substring0((CHOOSE m \in found : TRUE).appId, 16)

----------------------------------------------------------------------------
\* Session.

Addresses == {"a1"}
Chains    == {"u1", "u2"}

\* this.wallet = null
NullWallet == [set |-> FALSE, address |-> "undefined", userChainId |-> "undefined"]

IdleConn == [pc |-> "idle", address |-> "undefined", log |-> <<>>]

\* `Bearer ${this.wallet?.address}` of sendCrossChainMessage
BearerOf(w) == IF w.set THEN w.address ELSE "undefined"

----------------------------------------------------------------------------
\* Dispatcher.

\* The markets of the orders: a registered one and an unregistered one.
Markets == {<<"a">>, <<"c">>}

IdleCall == [pc |-> "idle", kind |-> "none", orders |-> <<>>, target |-> "undefined",
             groups |-> <<>>, gi |-> 0, nonce |-> Undefined, auth |-> "undefined",
             txs |-> 0, total |-> 0, reqs |-> 0, error |-> "", connected |-> FALSE,
             arg |-> "undefined", session |-> "undefined", stamp |-> Undefined]

CallIds == 1..MaxCalls

\* The Authorization header of the request getNonce makes for a client whose
\* wallet is w: fetch is called with the URL only, so there is none.
NonceAuth(w) == "none"

\* The call id the next invocation gets: invocations are numbered in start order.
FreeCalls == {c \in CallIds : calls[c].pc = "idle"}
NextCall  == CHOOSE c \in FreeCalls : \A d \in FreeCalls : c <= d

\* The order pushed for order o (lines 513-518): id is 0 for an order without
\* an id of its own (undefined or ''), and the generated id is
\* `order_${Date.now()}_...` with its random suffix left out.
Stamp(o) ==
    [id        |-> IF o.id # 0 THEN o.id ELSE [prefix |-> "order_", at |-> now],
     marketId  |-> o.marketId,
     timestamp |-> now,
     status    |-> "pending"]

RECURSIVE GroupInto(_, _)
\* The loop of lines 506-520 over the remaining orders, groups being the
\* entries of ordersByMarket so far, in insertion order.
GroupInto(orders, groups) ==
    IF orders = <<>> THEN groups
    ELSE LET o  == Head(orders)
             ch == getMarketChainId(o.marketId)
             at == {i \in DOMAIN groups : groups[i].chain = ch}
         IN  IF at = {}
             THEN GroupInto(Tail(orders), Append(groups, [chain |-> ch, orders |-> <<Stamp(o)>>]))
             ELSE LET i == CHOOSE j \in at : TRUE IN
                  GroupInto(Tail(orders),
                            [groups EXCEPT ![i].orders = Append(@, Stamp(o))])

GroupOrders_NewestFirst(orders) ==
    LET g == GroupInto(orders, <<>>) IN [i \in 1..Len(g) |-> g[Len(g) + 1 - i]]

\* ordersByMarket after the loop, as Object.entries(ordersByMarket) of line 525
\* lists it: the keys all start with chain-, so none is an array index, and
\* string keys are listed in insertion order.
GroupOrders(orders) == GroupInto(orders, <<>>)

----------------------------------------------------------------------------
\* Push channels (the WebSocket objects of the platform).

NoSocket == [state |-> "none", kind |-> "none", id |-> <<"none", 0>>, subSent |-> 0,
             unsubSent |-> 0, releases |-> 0, unsubCalls |-> 0, errored |-> FALSE]

SockIds == 1..MaxSocks

\* WebSocket.close(): starts the closing handshake of a connecting or open
\* socket and does nothing to a closing or closed one.
WsClose(ws) ==
    IF ws.state \in {"CONNECTING", "OPEN"}
    THEN [ws EXCEPT !.state = "CLOSING", !.releases = @ + 1]
    ELSE ws

\* The sockets held by the registry.
Registered == {e.sock : e \in subscriptions}

----------------------------------------------------------------------------
\* Batch accumulator and dispatcher: the operations.

\* clearBatchTimer: the timeout handles still pending after it ran.
ClearedArmed(pending) == pending \ {batchTimer}

\* A string in a JavaScript condition: undefined and '' are falsy.
Falsy(str) == str \in {"undefined", ""}

\* The call record on entry: the arguments and, as history, the session the
\* call was made in.
EnterCall(kind, orders, userChainId) ==
    [IdleCall EXCEPT !.kind = kind, !.orders = orders, !.connected = wallet.set,
                     !.arg = userChainId, !.session = wallet.userChainId]

StartCall_NoWalletCheck(kind, orders, userChainId) ==
    LET base == EnterCall(kind, orders, userChainId)
        target == IF ~Falsy(userChainId) THEN userChainId ELSE wallet.userChainId
    IN  IF Falsy(target)
        THEN [base EXCEPT !.pc = "thrown", !.error = "User chain ID not found"]
        ELSE LET groups == GroupOrders(orders) IN
             IF groups = <<>>
             THEN [base EXCEPT !.pc = "done", !.target = target,
                                  !.total = Len(orders)]
             ELSE [base EXCEPT !.pc = "nonce", !.target = target, !.groups = groups,
                               !.gi = 1, !.reqs = 1]

StartCall_SessionChainOnly(kind, orders, userChainId) ==
    LET base == EnterCall(kind, orders, userChainId)
    IN  IF ~wallet.set
        THEN [base EXCEPT !.pc = "thrown", !.error = "Wallet not connected"]
        ELSE LET target == wallet.userChainId
             IN  IF Falsy(target)
                 THEN [base EXCEPT !.pc = "thrown", !.error = "User chain ID not found"]
                 ELSE LET groups == GroupOrders(orders) IN
                      IF groups = <<>>
                      THEN [base EXCEPT !.pc = "done", !.target = target,
                                  !.total = Len(orders)]
                      ELSE [base EXCEPT !.pc = "nonce", !.target = target,
                                        !.groups = groups, !.gi = 1, !.reqs = 1]

\* submitBatchedOrders up to its first network request: the wallet check, the
\* origin chain (userChainId || this.wallet.userChainId), the grouping loop,
\* and the nonce request of the first group.  The awaits of the grouping loop
\* resolve in microtasks and the loop reads nothing another task writes, so it
\* runs within the calling task.
StartCall(kind, orders, userChainId) ==
    LET base == EnterCall(kind, orders, userChainId)
    IN  IF ~wallet.set
        THEN [base EXCEPT !.pc = "thrown", !.error = "Wallet not connected"]
        ELSE LET target == IF ~Falsy(userChainId) THEN userChainId
                           ELSE wallet.userChainId
             IN  IF Falsy(target)
                 THEN [base EXCEPT !.pc = "thrown", !.error = "User chain ID not found"]
                 ELSE LET groups == GroupOrders(orders) IN
                      IF groups = <<>>
                      THEN [base EXCEPT !.pc = "done", !.target = target,
                                  !.total = Len(orders)]
                      ELSE [base EXCEPT !.pc = "nonce", !.target = target,
                                        !.groups = groups, !.gi = 1, !.reqs = 1]

\* typeof window !== 'undefined': the client runs in a browser.
WindowDefined == TRUE

\* emitEvent: window.dispatchEvent(new CustomEvent(...)) where there is a window.
EmitEvent(e) == IF WindowDefined THEN Append(events, e) ELSE events

FlushEnd_NoCatch(ok, count, error, pending) ==
    /\ batchQueue' = IF ok THEN <<>> ELSE batchQueue
    /\ events' = IF ok
                 THEN EmitEvent([type |-> "batch-success", count |-> count, error |-> ""])
                 ELSE events
    /\ armed' = ClearedArmed(pending)
    /\ batchTimer' = 0

\* The tail of processBatchQueue once submitBatchedOrders settled: lines 582-589
\* on success, the catch block otherwise, and the finally block.
FlushEnd(ok, count, error, pending) ==
    /\ batchQueue' = IF ok THEN <<>> ELSE batchQueue
    /\ events' = EmitEvent(
                    IF ok THEN [type |-> "batch-success", count |-> count, error |-> ""]
                    ELSE [type |-> "batch-error", count |-> Len(batchQueue), error |-> error])
    /\ armed' = ClearedArmed(pending)
    /\ batchTimer' = 0

\* What the end of call c does to the accumulator: nothing for a direct call.
CallEnd(c, ok, error) ==
    IF calls[c].kind = "flush"
    THEN /\ FlushEnd(ok, Len(calls[c].orders), error, armed)
         /\ UNCHANGED <<timerSeq, itemSeq, window, flushes, lastFlush>>
    ELSE UNCHANGED batchVars

\* A caller invokes submitBatchedOrders(orders, userChainId).
SubmitDirect(orders, userChainId) ==
    /\ FreeCalls # {}
    /\ calls' = [calls EXCEPT ![NextCall] = StartCall("direct", orders, userChainId)]
    /\ UNCHANGED <<sessionVars, batchVars, counter, sent, now, cacheVars, subVars, routeVars>>

GetNonce_Cached(c, outcome) ==
    /\ calls[c].pc = "nonce"
    /\ IF outcome = "throw"
       THEN /\ calls' = [calls EXCEPT ![c].pc = "thrown", ![c].error = "nonce request failed"]
            /\ CallEnd(c, FALSE, "nonce request failed")
       ELSE /\ calls' = [calls EXCEPT
                    ![c].pc = "send",
                    ![c].nonce = IF calls[c].gi > 1 THEN @
                                 ELSE IF outcome = "ok" THEN counter[calls[c].target]
                                 ELSE Undefined,
                    ![c].auth = BearerOf(wallet),
                    ![c].stamp = now,
                    ![c].reqs = @ + 1]
            /\ UNCHANGED batchVars
    /\ UNCHANGED <<sessionVars, counter, sent, now, cacheVars, subVars, routeVars>>

\* The nonce endpoint serves the request of call c (getNonce) and the call goes
\* on to build the message of its current group (lines 526-532) and to post it
\* (lines 820-832).
\*   "ok":      the response carries the chain's current counter
\*   "nofield": the response body is JSON without a nonce field, as the error
\*              body of a response with a non-success status is (getNonce does
\*              not look at response.ok), so data.nonce is undefined
\*   "throw":   fetch rejects or the body is not JSON
GetNonce(c, outcome) ==
    /\ calls[c].pc = "nonce"
    /\ IF outcome = "throw"
       THEN /\ calls' = [calls EXCEPT ![c].pc = "thrown", ![c].error = "nonce request failed"]
            /\ CallEnd(c, FALSE, "nonce request failed")
       ELSE /\ calls' = [calls EXCEPT
                    ![c].pc = "send",
                    ![c].nonce = IF outcome = "ok" THEN counter[calls[c].target] ELSE Undefined,
                    ![c].auth = BearerOf(wallet),
                    ![c].stamp = now,
                    ![c].reqs = @ + 1]
            /\ UNCHANGED batchVars
    /\ UNCHANGED <<sessionVars, counter, sent, now, cacheVars, subVars, routeVars>>

\* The dispatch endpoint serves the message call c posted (sendCrossChainMessage)
\* and the call goes on: the next group's nonce request, the result, or the throw
\* of line 835.  The endpoint's counter advances when it accepts a message.
SendMessage(c, accepted) ==
    /\ calls[c].pc = "send"
    /\ Len(sent) < MaxSent
    /\ LET k == calls[c]
           g == k.groups[k.gi]
       IN  /\ sent' = Append(sent, [call |-> c, from |-> k.target, to |-> g.chain,
                                    nonce |-> k.nonce, timestamp |-> k.stamp,
                                    auth |-> k.auth,
                                    orders |-> g.orders, accepted |-> accepted])
           /\ counter' = IF accepted THEN [counter EXCEPT ![k.target] = @ + 1] ELSE counter
           /\ IF ~accepted
              THEN /\ calls' = [calls EXCEPT ![c].pc = "thrown",
                                             ![c].error = "Cross-chain message failed"]
                   /\ CallEnd(c, FALSE, "Cross-chain message failed")
              ELSE IF k.gi < Len(k.groups)
              THEN /\ calls' = [calls EXCEPT ![c].pc = "nonce", ![c].gi = @ + 1,
                                             ![c].txs = @ + 1, ![c].reqs = @ + 1]
                   /\ UNCHANGED batchVars
              ELSE /\ calls' = [calls EXCEPT ![c].pc = "done", ![c].txs = @ + 1,
                                             ![c].total = Len(k.orders)]
                   /\ CallEnd(c, TRUE, "")
    /\ UNCHANGED <<sessionVars, now, cacheVars, subVars, routeVars>>

AddToBatchQueue_AlwaysArms(marketId) ==
    /\ itemSeq < MaxItems
    /\ LET item == [id |-> itemSeq + 1, marketId |-> marketId] IN
       /\ itemSeq' = itemSeq + 1
       /\ batchQueue' = Append(batchQueue, item)
       /\ window' = Append(window, item)
       /\ timerSeq < MaxTimers
       /\ timerSeq' = timerSeq + 1
       /\ batchTimer' = timerSeq + 1
       /\ armed' = armed \cup {timerSeq + 1}
    /\ UNCHANGED <<sessionVars, flushes, lastFlush, events, callVars, now, cacheVars, subVars,
                   routeVars>>

\* addToBatchQueue(order) for an order on market marketId.  The id numbers the
\* enqueued items so that the history can tell them apart.
AddToBatchQueue(marketId) ==
    /\ itemSeq < MaxItems
    /\ LET item == [id |-> itemSeq + 1, marketId |-> marketId] IN
       /\ itemSeq' = itemSeq + 1
       /\ batchQueue' = Append(batchQueue, item)
       /\ window' = Append(window, item)
       /\ IF batchTimer = 0
          THEN /\ timerSeq < MaxTimers
               /\ timerSeq' = timerSeq + 1
               /\ batchTimer' = timerSeq + 1
               /\ armed' = armed \cup {timerSeq + 1}
          ELSE UNCHANGED <<timerSeq, batchTimer, armed>>
    /\ UNCHANGED <<sessionVars, flushes, lastFlush, events, callVars, now, cacheVars, subVars,
                   routeVars>>

\* The orders processBatchQueue makes of the queue (lines 573-578): marketId,
\* side, amount and timestamp of each item, and no id.
FlushOrders(queue) ==
    [i \in DOMAIN queue |-> [id |-> 0, marketId |-> queue[i].marketId]]

processBatchQueue_NoEmptyCheck(pending) ==
    /\ FreeCalls # {}
    /\ LET k == StartCall("flush", FlushOrders(batchQueue), "undefined") IN
       /\ calls' = [calls EXCEPT ![NextCall] = k]
       /\ flushes' = Append(flushes, [handed |-> batchQueue, window |-> window])
       /\ lastFlush' = IF batchQueue = <<>> THEN "empty" ELSE "handed"
       /\ window' = <<>>
       /\ IF k.pc \in {"thrown", "done"}
          THEN FlushEnd(k.pc = "done", Len(batchQueue), k.error, pending)
          ELSE /\ armed' = pending
               /\ UNCHANGED <<batchQueue, batchTimer, events>>
    /\ UNCHANGED <<timerSeq, itemSeq>>
    /\ UNCHANGED <<sessionVars, counter, sent, now, cacheVars, subVars, routeVars>>

\* processBatchQueue, with pending the timeouts pending when it starts: the
\* return of lines 567-570 on an empty queue, and otherwise the run up to the
\* first network request of submitBatchedOrders, or to the end when that
\* throws at once.
processBatchQueue(pending) ==
    /\ IF batchQueue = <<>>
       THEN /\ armed' = ClearedArmed(pending)
            /\ batchTimer' = 0
            /\ lastFlush' = "empty"
            /\ UNCHANGED <<batchQueue, timerSeq, itemSeq, window, flushes, events, calls>>
       ELSE /\ FreeCalls # {}
            /\ LET k == StartCall("flush", FlushOrders(batchQueue), "undefined") IN
               /\ calls' = [calls EXCEPT ![NextCall] = k]
               /\ flushes' = Append(flushes, [handed |-> batchQueue, window |-> window])
               /\ lastFlush' = "handed"
               /\ window' = <<>>
               /\ IF k.pc = "thrown"
                  THEN FlushEnd(FALSE, Len(batchQueue), k.error, pending)
                  ELSE /\ armed' = pending
                       /\ UNCHANGED <<batchQueue, batchTimer, events>>
            /\ UNCHANGED <<timerSeq, itemSeq>>
    /\ UNCHANGED <<sessionVars, counter, sent, now, cacheVars, subVars, routeVars>>

\* The flush timeout h fires and runs processBatchQueue.
TimerFire(h) ==
    /\ h \in armed
    /\ processBatchQueue(armed \ {h})

\* processBatchQueue invoked directly (a manual flush).
Flush == processBatchQueue(armed)

----------------------------------------------------------------------------
\* Session: the operations.

\* connectWallet is called: the Dynamic strategy when window.dynamic exists,
\* the Linera strategy otherwise.  In conn, log is history: the steps the call
\* in flight has completed.
ConnectStart(provider) ==
    /\ conn.pc = "idle"
    /\ conn' = [IdleConn EXCEPT !.pc = IF provider = "dynamic" THEN "dyn_connect"
                                      ELSE "lin_claim"]
    /\ UNCHANGED <<wallet, batchVars, callVars, now, cacheVars, subVars, routeVars>>

\* connectWallet rejects (lines 249-252): nothing is undone.
Rejected == IdleConn

\* connectWallet resolves with this.wallet.
Resolved == IdleConn

DynConnect_RegisterBeforeBalance(ok, address) ==
    /\ conn.pc = "dyn_connect"
    /\ IF ok
       THEN /\ wallet' = [set |-> TRUE, address |-> address, userChainId |-> "undefined"]
            /\ conn' = [conn EXCEPT !.pc = "dyn_register", !.address = address,
                                    !.log = Append(@, "session")]
       ELSE /\ conn' = Rejected
            /\ UNCHANGED wallet
    /\ UNCHANGED <<batchVars, callVars, now, cacheVars, subVars, routeVars>>

\* connectDynamicWallet, lines 259-271: setWallet and connect settle, and the
\* wallet is set.
DynConnect(ok, address) ==
    /\ conn.pc = "dyn_connect"
    /\ IF ok
       THEN /\ wallet' = [set |-> TRUE, address |-> address, userChainId |-> "undefined"]
            /\ conn' = [conn EXCEPT !.pc = "dyn_balance", !.address = address,
                                    !.log = Append(@, "session")]
       ELSE /\ conn' = Rejected
            /\ UNCHANGED wallet
    /\ UNCHANGED <<batchVars, callVars, now, cacheVars, subVars, routeVars>>

\* connectDynamicWallet, line 274: getBalance settles.
DynBalance(ok) ==
    /\ conn.pc = "dyn_balance"
    /\ conn' = IF ok THEN [conn EXCEPT !.pc = "dyn_register", !.log = Append(@, "balance")]
               ELSE Rejected
    /\ UNCHANGED <<wallet, batchVars, callVars, now, cacheVars, subVars, routeVars>>

\* connectDynamicWallet, lines 277-285: registerUserChain settles and the wallet
\* is rebuilt from { ...this.wallet, balance, userChainId }; spreading null
\* gives an object with those two fields only.
DynRegister(ok, chainId) ==
    /\ conn.pc = "dyn_register"
    /\ conn' = IF ok THEN Resolved ELSE Rejected
    /\ wallet' = IF ok
                 THEN [set |-> TRUE, address |-> wallet.address, userChainId |-> chainId]
                 ELSE wallet
    /\ UNCHANGED <<batchVars, callVars, now, cacheVars, subVars, routeVars>>

\* connectLineraWallet, lines 292-340: the faucet wallet, the claimed chain and
\* its balance (line 330) are there and the wallet is set (line 333).
LinClaim(ok, address, chainId) ==
    /\ conn.pc = "lin_claim"
    /\ IF ok
       THEN /\ wallet' = [set |-> TRUE, address |-> address, userChainId |-> chainId]
            /\ conn' = [conn EXCEPT !.pc = "lin_register", !.address = address,
                                    !.log = <<"balance", "session">>]
       ELSE /\ conn' = Rejected
            /\ UNCHANGED wallet
    /\ UNCHANGED <<batchVars, callVars, now, cacheVars, subVars, routeVars>>

\* connectLineraWallet, lines 344-346: registerUserChain settles.
LinRegister(ok) ==
    /\ conn.pc = "lin_register"
    /\ conn' = IF ok THEN Resolved ELSE Rejected
    /\ UNCHANGED <<wallet, batchVars, callVars, now, cacheVars, subVars, routeVars>>

\* disconnectWallet
DisconnectWallet ==
    /\ wallet' = NullWallet
    /\ sockets' = [s \in SockIds |-> IF s \in Registered THEN WsClose(sockets[s]) ELSE sockets[s]]
    /\ subscriptions' = {}
    /\ armed' = ClearedArmed(armed)
    /\ batchTimer' = 0
    /\ UNCHANGED <<conn, batchQueue, timerSeq, itemSeq, window, flushes, lastFlush, events,
                   callVars, now, cacheVars, lastFrame, lastUnsub, routeVars>>

----------------------------------------------------------------------------
\* TTL cache.

\* JSON.stringify(filters) inside a template literal, for the filters callers
\* pass to queryMarkets here: none, and the empty object.
StringifyFilters(filters) == IF filters = "undefined" THEN <<"undefined">> ELSE <<"{}">>

\* `markets:${JSON.stringify(filters)}`
MarketsKey(filters) == <<"markets:">> \o StringifyFilters(filters)

\* The key createMarket deletes: 'markets:'
INVALIDATED_KEY == <<"markets:">>

\* The cache keys in use: the two above and `market:${marketId}`.
Keys   == {INVALIDATED_KEY, MarketsKey("undefined"), MarketsKey("{}"), <<"market:", "a">>}
Values == {"v1", "v2"}

\* this.cache.get(key) === undefined
NoEntry == [present |-> FALSE, data |-> "none", timestamp |-> 0]

NoSet == [done |-> FALSE, data |-> "none", at |-> 0, ttl |-> 0, epoch |-> 0]

NoQuery == [pc |-> "idle", key |-> <<>>, hit |-> FALSE, data |-> "none", issuedAt |-> 0,
            epoch |-> 0]
NoGet == [done |-> FALSE, key |-> <<>>, hit |-> FALSE, data |-> "none", at |-> 0,
          set |-> NoSet]

----------------------------------------------------------------------------
\* Push channels: history records.

NoFrame == [sock |-> 0, handled |-> FALSE, wellFormed |-> FALSE, invoked |-> FALSE,
            escaped |-> FALSE, stateAfter |-> "none", afterMalformed |-> FALSE,
            afterUnsub |-> FALSE]
NoUnsub == [sock |-> 0, nth |-> 0, sentCtrl |-> FALSE, closed |-> FALSE,
            registryChanged |-> FALSE]

----------------------------------------------------------------------------
\* The client after construction (lines 221-231) and its collaborators.

Init ==
    /\ wallet = NullWallet
    /\ conn = IdleConn
    /\ batchQueue = <<>>
    /\ batchTimer = 0
    /\ armed = {}
    /\ timerSeq = 0
    /\ itemSeq = 0
    /\ calls = [c \in CallIds |-> IdleCall]
    /\ counter = [ch \in Chains |-> 0]
    /\ sent = <<>>
    /\ events = <<>>
    /\ window = <<>>
    /\ flushes = <<>>
    /\ lastFlush = "none"
    /\ now = 0
    /\ cache = [k \in Keys |-> NoEntry]
    /\ cacheTimers = {}
    /\ lastSet = [k \in Keys |-> NoSet]
    /\ lastGet = NoGet
    /\ creates = 0
    /\ query = NoQuery
    /\ sockets = [s \in SockIds |-> NoSocket]
    /\ subscriptions = {}
    /\ lastFrame = NoFrame
    /\ lastUnsub = NoUnsub
    /\ rq = <<>>
    /\ rs = <<>>

\* Date.now() moves on.
Tick ==
    /\ now < MaxTime
    /\ now' = now + 1
    /\ UNCHANGED <<sessionVars, batchVars, callVars, cacheVars, subVars, routeVars>>

----------------------------------------------------------------------------
\* TTL cache: the operations.

\* LOCAL_CONFIG.PERFORMANCE.CACHE_TTL.MARKET_LIST
CACHE_TTL_MARKET_LIST == 2

getCachedData_OwnTtl(key) ==
    LET cached == cache[key] IN
    IF cached.present /\ now - cached.timestamp < lastSet[key].ttl
    THEN [hit |-> TRUE, data |-> cached.data]
    ELSE [hit |-> FALSE, data |-> "none"]

\* getCachedData(key): the payload, or null
getCachedData(key) ==
    LET cached == cache[key] IN
    IF cached.present /\ now - cached.timestamp < CACHE_TTL_MARKET_LIST
    THEN [hit |-> TRUE, data |-> cached.data]
    ELSE [hit |-> FALSE, data |-> "none"]

\* cacheData(key, data, ttl): the entry is stored and its eviction timeout started.
cacheData(key, data, ttl) ==
    /\ cache' = [cache EXCEPT ![key] = [present |-> TRUE, data |-> data, timestamp |-> now]]
    /\ cacheTimers' = cacheTimers \cup {[key |-> key, due |-> now + ttl]}
    /\ lastSet' = [lastSet EXCEPT ![key] = [done |-> TRUE, data |-> data, at |-> now,
                                            ttl |-> ttl, epoch |-> creates]]

\* A caller stores an entry with cacheData(key, data, ttl).
CacheData(key, data, ttl) ==
    /\ Cardinality(cacheTimers) < MaxPending
    /\ cacheData(key, data, ttl)
    /\ UNCHANGED <<lastGet, marketVars, sessionVars, batchVars, callVars, now, subVars,
                   routeVars>>

\* The eviction timeout t of a cacheData call fires, at its due time or later:
\* this.cache.delete(key).
CacheEvict(t) ==
    /\ t \in cacheTimers
    /\ now >= t.due
    /\ cacheTimers' = cacheTimers \ {t}
    /\ cache' = [cache EXCEPT ![t.key] = NoEntry]
    /\ UNCHANGED <<lastSet, lastGet, marketVars, sessionVars, batchVars, callVars, now,
                   subVars, routeVars>>

\* A caller reads the cache with getCachedData(key).
GetCachedData(key) ==
    /\ lastGet' = [done |-> TRUE, key |-> key, hit |-> getCachedData(key).hit,
                   data |-> getCachedData(key).data, at |-> now, set |-> lastSet[key]]
    /\ UNCHANGED <<cache, cacheTimers, lastSet, marketVars, sessionVars, batchVars,
                   callVars, now, subVars, routeVars>>

----------------------------------------------------------------------------
\* Market operations.

\* The filters callers pass to queryMarkets.
Filters == {"undefined", "{}"}

\* response.data.markets as the endpoint may answer: a list, or null.
Payloads == {"v1", "null"}

\* `if (cached)` on what getCachedData returned: null is falsy, whether it
\* stands for no entry or is the payload of the entry.
Truthy(cached) == cached.hit /\ cached.data # "null"

\* queryMarkets(filters) up to its return from the cache or to its GraphQL
\* request.  issuedAt and epoch are history: the number of markets created when
\* the call was made, and when the list it returned was fetched.
QueryMarkets(filters) ==
    /\ query.pc # "wait"
    /\ LET cacheKey == MarketsKey(filters)
           cached   == getCachedData(cacheKey)
       IN  query' = IF Truthy(cached)
                    THEN [pc |-> "done", key |-> cacheKey, hit |-> TRUE,
                          data |-> cached.data,
                          issuedAt |-> creates, epoch |-> lastSet[cacheKey].epoch]
                    ELSE [pc |-> "wait", key |-> cacheKey, hit |-> FALSE,
                          data |-> "none",
                          issuedAt |-> creates, epoch |-> 0]
    /\ UNCHANGED <<creates, cache, cacheTimers, lastSet, lastGet, sessionVars, batchVars,
                   callVars, now, subVars, routeVars>>

\* The GraphQL endpoint serves the request of queryMarkets with data, which is
\* cached for the market-list TTL and returned (lines 414-415), or
\* graphqlRequest throws.
QueryServed(ok, data) ==
    /\ query.pc = "wait"
    /\ IF ok
       THEN /\ Cardinality(cacheTimers) < MaxPending
            /\ cacheData(query.key, data, CACHE_TTL_MARKET_LIST)
            /\ query' = [query EXCEPT !.pc = "done", !.data = data, !.epoch = creates]
       ELSE /\ query' = [query EXCEPT !.pc = "thrown"]
            /\ UNCHANGED <<cache, cacheTimers, lastSet>>
    /\ UNCHANGED <<creates, lastGet, sessionVars, batchVars, callVars, now, subVars,
                   routeVars>>

\* createMarket on a connected session: the endpoint creates the market and the
\* call deletes the cache key 'markets:' (line 478), or graphqlRequest throws.
\* The call does nothing between its wallet check and the response.
CreateMarket(ok) ==
    /\ wallet.set
    /\ creates < MaxCreates
    /\ IF ok
       THEN /\ creates' = creates + 1
            /\ cache' = [cache EXCEPT ![INVALIDATED_KEY] = NoEntry]
       ELSE UNCHANGED <<creates, cache>>
    /\ UNCHANGED <<query, cacheTimers, lastSet, lastGet, sessionVars, batchVars, callVars,
                   now, subVars, routeVars>>

----------------------------------------------------------------------------
\* Push channels: the operations.

UpdateFields == {"marketUpdates", "orderUpdates"}

\* The frames a channel may deliver: text that is not JSON, the JSON values
\* null and a number, and JSON objects of type data or error: without payload,
\* with a payload without data, and with payload.data whose update fields are
\* both falsy or hold an update object for one kind of subscription.
Frames ==
    [json : {FALSE}, top : {"none"}, type : {"absent"}, payload : {"absent"},
     data : {"absent"}, updates : {[f \in UpdateFields |-> "absent"]}]
    \cup
    [json : {TRUE}, top : {"null", "number"}, type : {"absent"}, payload : {"absent"},
     data : {"absent"}, updates : {[f \in UpdateFields |-> "absent"]}]
    \cup
    [json : {TRUE}, top : {"object"}, type : {"data", "error"},
     payload : {"absent"}, data : {"absent"}, updates : {[f \in UpdateFields |-> "absent"]}]
    \cup
    [json : {TRUE}, top : {"object"}, type : {"data", "error"},
     payload : {"present"}, data : {"absent"}, updates : {[f \in UpdateFields |-> "absent"]}]
    \cup
    [json : {TRUE}, top : {"object"}, type : {"data", "error"},
     payload : {"present"}, data : {"present"},
     updates : {[f \in UpdateFields |-> "falsy"]} \cup
               {[f \in UpdateFields |-> IF f = g THEN "update" ELSE "absent"] :
                    g \in UpdateFields}]

\* The update field the handler of a subscription of this kind reads.
FieldOf(kind) == IF kind = "market" THEN "marketUpdates" ELSE "orderUpdates"

\* data.payload?.data?.marketUpdates (orderUpdates)
PayloadUpdate(kind, frame) ==
    IF frame.payload = "present" /\ frame.data = "present"
    THEN frame.updates[FieldOf(kind)]
    ELSE "absent"

\* The try block of onmessage: whether it called the callback and whether it threw.
\* JSON.parse throws on text that is not JSON, data.type throws on null.
HandlerBody(kind, frame, callbackThrows) ==
    IF ~frame.json THEN [invoked |-> FALSE, threw |-> TRUE]
    ELSE IF frame.top = "null" THEN [invoked |-> FALSE, threw |-> TRUE]
    ELSE IF /\ frame.top = "object"
            /\ frame.type = "data"
            /\ PayloadUpdate(kind, frame) = "update"
         THEN [invoked |-> TRUE, threw |-> callbackThrows]
         ELSE [invoked |-> FALSE, threw |-> FALSE]

OnMessage_NoTryCatch(kind, frame, callbackThrows) ==
    LET r == HandlerBody(kind, frame, callbackThrows) IN
    [invoked |-> r.invoked, escaped |-> r.threw]

\* ws.onmessage: the try block with its catch, which logs and returns.
OnMessage(kind, frame, callbackThrows) ==
    LET r == HandlerBody(kind, frame, callbackThrows) IN
    [invoked |-> r.invoked, escaped |-> FALSE]

\* The claims' notion of a frame of the expected payload shape for a
\* subscription of this kind: type 'data' with that kind's update payload.
WellFormed(kind, frame) ==
    /\ frame.json
    /\ frame.top = "object"
    /\ frame.type = "data"
    /\ frame.payload = "present"
    /\ frame.data = "present"
    /\ frame.updates[FieldOf(kind)] = "update"

FreeSocks == {s \in SockIds : sockets[s].state = "none"}

\* subscribeToMarketUpdates / subscribeToOrderUpdates: the id is made of the
\* kind and the clock reading, the socket starts connecting, the registry maps
\* the id to it.
Subscribe(kind) ==
    /\ FreeSocks # {}
    /\ LET s  == CHOOSE x \in FreeSocks : \A y \in FreeSocks : x <= y
           id == <<kind, now>>
       IN  /\ sockets' = [sockets EXCEPT ![s] =
                            [NoSocket EXCEPT !.state = "CONNECTING", !.kind = kind, !.id = id]]
           /\ subscriptions' = {e \in subscriptions : e.id # id} \cup {[id |-> id, sock |-> s]}
    /\ UNCHANGED <<lastFrame, lastUnsub, sessionVars, batchVars, callVars, now, cacheVars,
                   routeVars>>

WsOpen_AfterClose(s) ==
    /\ sockets[s].state \in {"CONNECTING", "CLOSING"}
    /\ sockets' = [sockets EXCEPT
                      ![s].state = IF sockets[s].state = "CONNECTING" THEN "OPEN" ELSE @,
                      ![s].subSent = @ + 1]
    /\ UNCHANGED <<subscriptions, lastFrame, lastUnsub, sessionVars, batchVars, callVars, now,
                   cacheVars, routeVars>>

\* The channel signals ready: onopen sends the subscribe control message.  The
\* platform fires open only on a socket that is still CONNECTING: close() on a
\* connecting socket fails the connection.
WsOpen(s) ==
    /\ sockets[s].state = "CONNECTING"
    /\ sockets' = [sockets EXCEPT ![s].state = "OPEN", ![s].subSent = @ + 1]
    /\ UNCHANGED <<subscriptions, lastFrame, lastUnsub, sessionVars, batchVars, callVars, now,
                   cacheVars, routeVars>>

\* A frame arrives on the channel.  The platform hands it to onmessage only
\* while the socket is OPEN (WHATWG WebSockets: the message task returns when
\* the ready state is not OPEN); a frame arriving while CLOSING is discarded.
WsMessage(s, frame, callbackThrows) ==
    /\ sockets[s].state \in {"OPEN", "CLOSING"}
    /\ UNCHANGED sockets
    /\ LET ws      == sockets[s]
           handled == ws.state = "OPEN"
           r       == IF handled THEN OnMessage(ws.kind, frame, callbackThrows)
                      ELSE [invoked |-> FALSE, escaped |-> FALSE]
           wf      == WellFormed(ws.kind, frame)
       IN  /\ lastFrame' = [sock |-> s, handled |-> handled, wellFormed |-> wf,
                            invoked |-> r.invoked, escaped |-> r.escaped,
                            stateAfter |-> sockets'[s].state,
                            afterMalformed |-> /\ lastFrame.sock = s
                                               /\ lastFrame.handled
                                               /\ ~lastFrame.wellFormed,
                            afterUnsub |-> ws.unsubCalls > 0]
           /\ lastUnsub' = NoUnsub
    /\ UNCHANGED <<subscriptions, sessionVars, batchVars, callVars, now, cacheVars,
                   routeVars>>

WsError_Reconnect(s) ==
    /\ sockets[s].state \in {"CONNECTING", "OPEN", "CLOSING"}
    /\ FreeSocks # {}
    /\ LET n == CHOOSE x \in FreeSocks : \A y \in FreeSocks : x <= y IN
       sockets' = [sockets EXCEPT
                      ![s].state = "CLOSED",
                      ![s].releases = IF sockets[s].state = "CLOSING" THEN @ ELSE @ + 1,
                      ![s].errored = TRUE,
                      ![n] = [NoSocket EXCEPT !.state = "CONNECTING",
                                              !.kind = sockets[s].kind,
                                              !.id = sockets[s].id]]
    /\ UNCHANGED <<subscriptions, lastFrame, lastUnsub, sessionVars, batchVars, callVars, now,
                   cacheVars, routeVars>>

\* The channel fails: onerror logs (the order subscription sets no onerror)
\* and the platform closes the socket.  errored is history.
WsError(s) ==
    /\ sockets[s].state \in {"CONNECTING", "OPEN", "CLOSING"}
    /\ sockets' = [sockets EXCEPT ![s].state = "CLOSED",
                                  ![s].releases = IF sockets[s].state = "CLOSING" THEN @ ELSE @ + 1,
                                  ![s].errored = TRUE]
    /\ UNCHANGED <<subscriptions, lastFrame, lastUnsub, sessionVars, batchVars, callVars, now,
                   cacheVars, routeVars>>

\* The closing handshake completes, or the peer closes an open channel.
WsClosed(s) ==
    /\ sockets[s].state \in {"OPEN", "CLOSING"}
    /\ sockets' = [sockets EXCEPT ![s].state = "CLOSED",
                                  ![s].releases = IF sockets[s].state = "CLOSING" THEN @ ELSE @ + 1]
    /\ UNCHANGED <<subscriptions, lastFrame, lastUnsub, sessionVars, batchVars, callVars, now,
                   cacheVars, routeVars>>

UnsubscribeSocket_CloseIfOpen(ws) ==
    IF ws.state = "OPEN"
    THEN WsClose([ws EXCEPT !.unsubSent = @ + 1, !.unsubCalls = @ + 1])
    ELSE [ws EXCEPT !.unsubCalls = @ + 1]

UnsubscribeSocket_AlwaysSend(ws) ==
    WsClose([ws EXCEPT !.unsubSent = @ + 1, !.unsubCalls = @ + 1])

\* unsubscribe(), lines 732-738: the unsubscribe control message when the
\* socket is OPEN, then ws.close().
UnsubscribeSocket(ws) ==
    WsClose([ws EXCEPT !.unsubSent = IF ws.state = "OPEN" THEN @ + 1 ELSE @,
                       !.unsubCalls = @ + 1])

\* The caller invokes unsubscribe() on the handle of socket s.
Unsubscribe(s) ==
    /\ sockets[s].state # "none"
    /\ sockets[s].unsubCalls < MaxUnsub
    /\ sockets' = [sockets EXCEPT ![s] = UnsubscribeSocket(sockets[s])]
    /\ subscriptions' = {e \in subscriptions : e.id # sockets[s].id}
    /\ lastUnsub' = [sock |-> s, nth |-> sockets[s].unsubCalls + 1,
                     sentCtrl |-> sockets'[s].unsubSent # sockets[s].unsubSent,
                     closed |-> sockets'[s].state # sockets[s].state,
                     registryChanged |-> subscriptions' # subscriptions]
    /\ lastFrame' = NoFrame
    /\ UNCHANGED <<sessionVars, batchVars, callVars, now, cacheVars, routeVars>>

----------------------------------------------------------------------------
\* Chain router: the operation.

Alphabet == {"a", "b"}

MarketIds == UNION {[1..n -> Alphabet] : n \in 0..MaxIdLen}

\* A caller resolves rq.
Resolve ==
    /\ rs = <<>>
    /\ rs' = getMarketChainId(rq)
    /\ UNCHANGED <<rq, sessionVars, batchVars, callVars, now, cacheVars, subVars>>

----------------------------------------------------------------------------
\* Specifications.

SessionNext ==
    \/ \E p \in {"dynamic", "linera"} : ConnectStart(p)
    \/ \E ok \in BOOLEAN, a \in Addresses : DynConnect(ok, a)
    \/ \E ok \in BOOLEAN : DynBalance(ok)
    \/ \E ok \in BOOLEAN, ch \in Chains : DynRegister(ok, ch)
    \/ \E ok \in BOOLEAN, a \in Addresses, ch \in Chains : LinClaim(ok, a, ch)
    \/ \E ok \in BOOLEAN : LinRegister(ok)
    \/ DisconnectWallet

DispatchNext ==
    \/ \E c \in CallIds, o \in {"ok", "nofield", "throw"} : GetNonce(c, o)
    \/ \E c \in CallIds, a \in BOOLEAN : SendMessage(c, a)

Next ==
    \/ SessionNext
    \/ \E m \in Markets : AddToBatchQueue(m)
    \/ \E h \in armed : TimerFire(h)
    \/ DispatchNext

\* The client with its session, accumulator and dispatcher.
Spec == Init /\ [][Next]_vars

\* The wallets connectWallet leaves behind: none, the Dynamic one before its
\* chain is registered, and a complete one.
SessionWallets ==
    {NullWallet} \cup
    [set : {TRUE}, address : Addresses, userChainId : Chains \cup {"undefined"}]

\* The order lists callers hand to submitBatchedOrders directly.
DirectOrderLists ==
    UNION {[1..n -> [id : {0}, marketId : Markets]] : n \in 0..MaxOrders}

InitDispatch ==
    /\ wallet \in SessionWallets
    /\ conn = IdleConn
    /\ batchQueue = <<>> /\ batchTimer = 0 /\ armed = {} /\ timerSeq = 0 /\ itemSeq = 0
    /\ calls = [c \in CallIds |-> IdleCall]
    /\ counter = [ch \in Chains |-> 0]
    /\ sent = <<>> /\ events = <<>> /\ window = <<>> /\ flushes = <<>>
    /\ lastFlush = "none"
    /\ now = 0
    /\ cache = [k \in Keys |-> NoEntry] /\ cacheTimers = {}
    /\ lastSet = [k \in Keys |-> NoSet] /\ lastGet = NoGet
    /\ creates = 0 /\ query = NoQuery
    /\ sockets = [s \in SockIds |-> NoSocket] /\ subscriptions = {}
    /\ lastFrame = NoFrame /\ lastUnsub = NoUnsub
    /\ rq = <<>> /\ rs = <<>>

NextDispatch ==
    \/ \E o \in DirectOrderLists, u \in Chains \cup {"undefined"} : SubmitDirect(o, u)
    \/ DispatchNext
    \/ DisconnectWallet

\* Callers of submitBatchedOrders on a client in any session state.
SpecDispatch == InitDispatch /\ [][NextDispatch]_vars

NextFlush ==
    \/ \E m \in Markets : AddToBatchQueue(m)
    \/ \E h \in armed : TimerFire(h)
    \/ Flush
    \/ DispatchNext
    \/ DisconnectWallet

\* The accumulator of a client in any session state, flushed by its timer and
\* by direct invocation.
SpecFlush == InitDispatch /\ [][NextFlush]_vars

\* The market whose orders the caller enqueues in a session on user chain ch.
MarketOf(ch) == IF ch = "u1" THEN <<"a">> ELSE <<"c">>

NextRequeue ==
    \/ ~wallet.set /\ \E p \in {"dynamic", "linera"} : ConnectStart(p)
    \/ \E ok \in BOOLEAN, a \in Addresses : DynConnect(ok, a)
    \/ \E ok \in BOOLEAN : DynBalance(ok)
    \/ \E ok \in BOOLEAN, ch \in Chains : DynRegister(ok, ch)
    \/ \E ok \in BOOLEAN, a \in Addresses, ch \in Chains : LinClaim(ok, a, ch)
    \/ \E ok \in BOOLEAN : LinRegister(ok)
    \/ DisconnectWallet
    \/ \E ch \in Chains : wallet.userChainId = ch /\ AddToBatchQueue(MarketOf(ch))
    \/ \E h \in armed : TimerFire(h)
    \/ DispatchNext

\* A caller who connects only while disconnected and enqueues, in a session on
\* user chain ch, orders for the market MarketOf(ch) only: the market of a
\* queued order tells the session it was enqueued in.
SpecRequeue == Init /\ [][NextRequeue]_vars

\* The keys the callers of the cache use here.
CacheKeys == {INVALIDATED_KEY, <<"market:", "a">>}

NextCache ==
    \/ Tick
    \/ \E k \in CacheKeys, v \in Values, ttl \in 1..MaxTtl : CacheData(k, v, ttl)
    \/ \E t \in cacheTimers : CacheEvict(t)
    \/ \E k \in CacheKeys : GetCachedData(k)

\* The TTL cache and the clock.
SpecCache == Init /\ [][NextCache]_vars

NextMarkets ==
    \/ Tick
    \/ \E f \in Filters : QueryMarkets(f)
    \/ \E ok \in BOOLEAN, d \in Payloads : QueryServed(ok, d)
    \/ \E ok \in BOOLEAN : CreateMarket(ok)
    \/ \E t \in cacheTimers : CacheEvict(t)

\* queryMarkets and createMarket on a client in any session state, with the
\* cache and the clock.
SpecMarkets == InitDispatch /\ [][NextMarkets]_vars

NextSub ==
    \/ Tick
    \/ \E k \in {"market", "order"} : Subscribe(k)
    \/ \E s \in SockIds : WsOpen(s)
    \/ \E s \in SockIds, f \in Frames :
          \E t \in IF WellFormed(sockets[s].kind, f) THEN BOOLEAN ELSE {FALSE} :
              WsMessage(s, f, t)
    \/ \E s \in SockIds : WsError(s)
    \/ \E s \in SockIds : WsClosed(s)
    \/ \E s \in SockIds : Unsubscribe(s)
    \/ DisconnectWallet

\* The push subscriptions, their handles and the clock.
SpecSub == Init /\ [][NextSub]_vars

InitRoute ==
    /\ wallet = NullWallet
    /\ conn = IdleConn
    /\ batchQueue = <<>> /\ batchTimer = 0 /\ armed = {} /\ timerSeq = 0 /\ itemSeq = 0
    /\ calls = [c \in CallIds |-> IdleCall]
    /\ counter = [ch \in Chains |-> 0]
    /\ sent = <<>> /\ events = <<>> /\ window = <<>> /\ flushes = <<>>
    /\ lastFlush = "none"
    /\ now = 0
    /\ cache = [k \in Keys |-> NoEntry] /\ cacheTimers = {}
    /\ lastSet = [k \in Keys |-> NoSet] /\ lastGet = NoGet
    /\ creates = 0 /\ query = NoQuery
    /\ sockets = [s \in SockIds |-> NoSocket] /\ subscriptions = {}
    /\ lastFrame = NoFrame /\ lastUnsub = NoUnsub
    /\ rq \in MarketIds /\ rs = <<>>

\* The chain router asked about one marketId.
SpecRoute == InitRoute /\ [][Resolve]_vars

----------------------------------------------------------------------------
\* Properties.

ItemIds(q) == {q[i].id : i \in DOMAIN q}

\* C1: every flush hands to submitBatchedOrders exactly the items enqueued in
\* the debounce window it ends (since the previous flush began), in enqueue
\* order, and no item is handed over by more than one flush.
C1_FlushHandsWindowOnce ==
    \A i \in DOMAIN flushes :
        /\ flushes[i].handed = flushes[i].window
        /\ \A j \in DOMAIN flushes :
              j # i => ItemIds(flushes[i].handed) \cap ItemIds(flushes[j].handed) = {}

\* C2: the nonces of the dispatch messages of one origin chain are strictly
\* increasing in send order, hence without duplicates (stated for the
\* messages that carry a nonce and that the endpoint accepted, whose
\* acceptance is what advances the counter).
C2_NoncesStrictlyIncreasing ==
    \A i, j \in DOMAIN sent :
        ( /\ i < j
          /\ sent[i].from = sent[j].from
          /\ sent[i].accepted /\ sent[j].accepted
          /\ sent[i].nonce # Undefined /\ sent[j].nonce # Undefined )
        => sent[i].nonce < sent[j].nonce

\* Call c is between the request of a nonce and the end of the send that uses it.
InNonceSection(c) == calls[c].pc \in {"nonce", "send"}

\* C3: no two fetch-nonce-then-send sections for the same origin chain are in
\* progress at the same time.
C3_SingleFlightNonce ==
    \A c, d \in CallIds :
        (c # d /\ InNonceSection(c) /\ InNonceSection(d))
        => calls[c].target # calls[d].target

Destinations(orders) == {getMarketChainId(orders[i].marketId) : i \in DOMAIN orders}

MessagesOf(c) == {i \in DOMAIN sent : sent[i].call = c}

\* C4: a submitBatchedOrders call that returned a result sent exactly one
\* message per destination chain of its orders, each with a nonce of its own,
\* and returned as many transaction ids as destinations and totalOrders equal
\* to the number of its orders.
C4_OneMessagePerDestination ==
    \A c \in CallIds :
        calls[c].pc = "done" =>
            LET ms == MessagesOf(c)
                ds == Destinations(calls[c].orders)
            IN  /\ Cardinality(ms) = Cardinality(ds)
                /\ {sent[i].to : i \in ms} = ds
                /\ \A i, j \in ms : i # j => sent[i].nonce # sent[j].nonce
                /\ calls[c].txs = Cardinality(ds)
                /\ calls[c].total = Len(calls[c].orders)

\* C5: a submitBatchedOrders call made while the wallet is null throws
\* 'Wallet not connected' and issues no network request: no nonce request, no
\* dispatch message.
C5_DisconnectedSubmitFails ==
    \A c \in CallIds :
        (calls[c].pc # "idle" /\ ~calls[c].connected) =>
            /\ calls[c].pc = "thrown"
            /\ calls[c].error = "Wallet not connected"
            /\ calls[c].reqs = 0
            /\ MessagesOf(c) = {}

\* A call with orders was made on a disconnected client while an earlier call
\* was still in flight.
C5_Witness ==
    \E c, d \in CallIds :
        /\ calls[c].pc = "thrown" /\ ~calls[c].connected /\ calls[c].orders # <<>>
        /\ InNonceSection(d)

\* C6: getCachedData(k) returns the value of the latest cacheData(k, v, ttl)
\* while less than ttl has elapsed since that call, and absent once
\* now - insertedAt >= ttl.
C6_TtlRespected ==
    (lastGet.done /\ lastGet.set.done) =>
        IF lastGet.at - lastGet.set.at < lastGet.set.ttl
        THEN lastGet.hit /\ lastGet.data = lastGet.set.data
        ELSE ~lastGet.hit

\* C7: once unsubscribe() was called on a handle, no frame invokes its
\* callback, and its channel is released, exactly once.
C7_NoCallbackAfterUnsubscribe ==
    /\ (lastFrame.sock # 0 /\ lastFrame.afterUnsub) => ~lastFrame.invoked
    /\ \A s \in SockIds :
          sockets[s].unsubCalls > 0 =>
              /\ sockets[s].state \in {"CLOSING", "CLOSED"}
              /\ sockets[s].releases = 1

\* A frame of the expected shape arrived on a channel that is still closing
\* after two unsubscribe() calls on its handle.
C7_Witness ==
    /\ lastFrame.sock # 0
    /\ lastFrame.afterUnsub
    /\ lastFrame.wellFormed
    /\ sockets[lastFrame.sock].state = "CLOSING"
    /\ sockets[lastFrame.sock].unsubCalls = 2
    /\ sockets[lastFrame.sock].subSent = 1

\* C8: a second unsubscribe() on the same handle sends no unsubscribe control
\* message, does not close the channel again and does not change the
\* subscription registry.
C8_SecondUnsubscribeNoEffect ==
    lastUnsub.nth >= 2 =>
        /\ ~lastUnsub.sentCtrl
        /\ ~lastUnsub.closed
        /\ ~lastUnsub.registryChanged

\* The first n characters of s, or all of s when it is shorter.
FirstChars(s, n) == [i \in 1..(IF Len(s) < n THEN Len(s) ELSE n) |-> s[i]]

ActiveSocks == {s \in SockIds : sockets[s].state \in {"CONNECTING", "OPEN"}}

\* C11: when disconnectWallet returns, the wallet is null, every channel that
\* was active is closing or closed, the subscription registry is empty and no
\* flush timeout is pending.
C11_DisconnectLeavesNothing ==
    [][DisconnectWallet =>
          /\ wallet' = NullWallet
          /\ \A s \in ActiveSocks : sockets'[s].state \in {"CLOSING", "CLOSED"}
          /\ subscriptions' = {}
          /\ armed' = {}
          /\ batchTimer' = 0]_vars

\* C12: no request reaches the network after disconnectWallet: every dispatch
\* message the endpoint received was posted while a wallet was connected and
\* carries that wallet's address as its bearer token.
C12_NoRequestAfterDisconnect ==
    \A i \in DOMAIN sent : sent[i].auth # BearerOf(NullWallet)

\* The step emits an event of this type.
Emits(type) ==
    /\ Len(events') = Len(events) + 1
    /\ events'[Len(events')].type = type

\* C13: when the dispatch of a flush throws, the batch queue is empty once the
\* flush attempt has ended with its batch-error event, so that the failed
\* items are not handed over again by a later flush.
C13_QueueClearedOnFailure ==
    [][Emits("batch-error") => batchQueue' = <<>>]_vars

\* The flush attempts (processBatchQueue runs on a non-empty queue) that ended
\* with this outcome of their dispatch.
FlushCalls(pcs) == {c \in CallIds : calls[c].kind = "flush" /\ calls[c].pc \in pcs}

EventsOf(type) == {i \in DOMAIN events : events[i].type = type}

C15_FailFast ==
    /\ \A i \in DOMAIN sent : sent[i].nonce # Undefined
    /\ \A c \in CallIds :
          LET k  == calls[c]
              ms == MessagesOf(c)
          IN  /\ (k.pc = "thrown" /\ k.groups # <<>>) =>
                    /\ k.total = 0
                    /\ Cardinality(ms) \in {k.gi - 1, k.gi}
                    /\ \A i \in ms : \A j \in DOMAIN k.groups :
                          j > k.gi => sent[i].to # k.groups[j].chain
                    /\ Cardinality({i \in ms : ~sent[i].accepted}) <= 1
              /\ k.pc \in {"nonce", "send"} => k.total = 0
              /\ k.pc = "done" =>
                    /\ k.txs = Len(k.groups)
                    /\ Cardinality(ms) = Len(k.groups)
                    /\ \A i \in ms : sent[i].accepted

\* C16: a submitBatchedOrders call made on a connected session uses the
\* explicit origin chain argument when one is given and the session's
\* userChainId otherwise, for every message it sends; when neither is there it
\* throws 'User chain ID not found' before routing any order and before any
\* network request.
C16_OriginChainResolution ==
    \A c \in CallIds :
        (calls[c].pc # "idle" /\ calls[c].connected) =>
            LET k        == calls[c]
                expected == IF ~Falsy(k.arg) THEN k.arg ELSE k.session
            IN  IF Falsy(expected)
                THEN /\ k.pc = "thrown"
                     /\ k.error = "User chain ID not found"
                     /\ k.groups = <<>>
                     /\ k.reqs = 0
                     /\ MessagesOf(c) = {}
                ELSE /\ k.target = expected
                     /\ k.error # "User chain ID not found"
                     /\ \A i \in MessagesOf(c) : sent[i].from = expected

\* A call with orders and without origin chain, on a session without
\* userChainId, threw, and a call with an explicit origin chain that is not the
\* session's sent a message.
C16_Witness ==
    \E c, d \in CallIds :
        /\ calls[c].connected /\ Falsy(calls[c].arg) /\ Falsy(calls[c].session)
        /\ calls[c].orders # <<>> /\ calls[c].pc = "thrown"
        /\ calls[d].connected /\ ~Falsy(calls[d].arg) /\ calls[d].arg # calls[d].session
        /\ MessagesOf(d) # {}

\* C17: an eviction timeout removes only the entry of the cacheData call that
\* scheduled it, the one whose ttl has elapsed: an entry stored again under the
\* same key before the older call's ttl elapsed is not removed by the older
\* call's timeout.
C17_EvictsOwnEntryOnly ==
    [][\A t \in cacheTimers :
          (CacheEvict(t) /\ cache[t.key].present /\ cache[t.key].timestamp < t.due) =>
              t.due = cache[t.key].timestamp + lastSet[t.key].ttl]_vars

\* C18: a queryMarkets call made after a successful createMarket does not
\* return a market list that was cached before that creation: the list it
\* returns from the cache was fetched when as many markets had been created as
\* when the call was made.
C18_NoStaleListAfterCreate ==
    (query.pc = "done" /\ query.hit) => query.epoch = query.issuedAt

\* C19: a channel error is terminal and is not propagated: the step in which a
\* channel fails invokes no callback and leaves the channel closed, a closed
\* channel stays closed and takes no frame, and a new channel appears only
\* when the caller subscribes.
C19_ErrorIsTerminal ==
    [][/\ \A s \in SockIds :
             /\ WsError(s) => (lastFrame' = lastFrame /\ sockets'[s].state = "CLOSED")
             /\ sockets[s].state = "CLOSED" =>
                   /\ sockets'[s].state = "CLOSED"
                   /\ (lastFrame' # lastFrame => lastFrame'.sock # s)
       /\ (\E s \in SockIds : sockets[s].state = "none" /\ sockets'[s].state # "none")
             => \E k \in {"market", "order"} : Subscribe(k)]_vars

\* A channel failed and stays closed, and the channel of a subscription made
\* after its own delivers updates to the callback.
C19_Witness ==
    \E s, t \in SockIds :
        /\ sockets[s].errored /\ sockets[s].state = "CLOSED"
        /\ s < t /\ sockets[t].state = "OPEN"
        /\ lastFrame.sock = t /\ lastFrame.invoked

\* C20: unsubscribe() sends the unsubscribe control message exactly when the
\* channel is open at that moment, and in every channel state it leaves the
\* channel closing or closed and the registry without the subscription's id.
C20_UnsubscribeEffects ==
    [][\A s \in SockIds :
          Unsubscribe(s) =>
              /\ sockets'[s].unsubSent =
                    sockets[s].unsubSent + (IF sockets[s].state = "OPEN" THEN 1 ELSE 0)
              /\ sockets'[s].state \in {"CLOSING", "CLOSED"}
              /\ \A e \in subscriptions' : e.id # sockets[s].id]_vars

\* unsubscribe() ran on a channel that was still connecting: it closed the
\* channel, removed the registry entry and sent no control message.
C20_Witness ==
    /\ lastUnsub.sock # 0
    /\ lastUnsub.closed
    /\ lastUnsub.registryChanged
    /\ ~lastUnsub.sentCtrl
    /\ sockets[lastUnsub.sock].subSent = 0

\* The step is one in which call c issues a nonce request.
IssuesNonceRequest(c) == calls[c].pc # "nonce" /\ calls'[c].pc = "nonce"

\* C21: every request issued while the session is connected carries the
\* session's authorization token: each nonce request, in the step that issues
\* it, and every dispatch message posted while a wallet was connected.
C21_RequestsCarryToken ==
    [][/\ \A c \in CallIds :
             (IssuesNonceRequest(c) /\ wallet'.set) => NonceAuth(wallet') = BearerOf(wallet')
       /\ \A i \in DOMAIN sent' :
             sent'[i].auth # BearerOf(NullWallet) => sent'[i].auth \in Addresses]_vars

\* The step is one in which connectWallet fails: at the identity provider, at
\* the balance fetch or at the chain registration.
ConnectFails ==
    \/ \E a \in Addresses : DynConnect(FALSE, a)
    \/ DynBalance(FALSE)
    \/ \E ch \in Chains : DynRegister(FALSE, ch)
    \/ \E a \in Addresses, ch \in Chains : LinClaim(FALSE, a, ch)
    \/ LinRegister(FALSE)

\* C22: a session exists only after a successful connect: when connectWallet
\* fails, at whichever step, it leaves the client disconnected (wallet null).
C22_FailedConnectLeavesNoSession ==
    [][ConnectFails => ~wallet'.set]_vars

\* C23: a non-success response is a hard failure, never retried: a call whose
\* nonce request is answered with a non-success status throws in that step,
\* without sending the group's message; a call whose message is rejected
\* throws in that step; and a call makes at most one nonce request and one
\* send per group.
C23_NonSuccessIsHardFailure ==
    [][\A c \in CallIds :
          /\ GetNonce(c, "nofield") => calls'[c].pc = "thrown"
          /\ SendMessage(c, FALSE) => calls'[c].pc = "thrown"
          /\ calls'[c].reqs <= 2 * Len(calls'[c].groups)]_vars

\* The messages call c posted, in the order the endpoint served them.
SentBy(c) == SelectSeq(sent, LAMBDA m : m.call = c)

\* The position of the first order of orders that goes to chain ch.
FirstSeen(orders, ch) ==
    CHOOSE i \in DOMAIN orders :
        /\ getMarketChainId(orders[i].marketId) = ch
        /\ \A j \in 1..(i - 1) : getMarketChainId(orders[j].marketId) # ch

\* C24: within one submitBatchedOrders call the groups are in first-seen
\* destination order and are processed one after the other in that order: the
\* i-th message of the call goes to the i-th group's chain, a call waiting for
\* the nonce or the send of group i has had the sends of groups 1..i-1
\* completed, and a call that returned its result has sent every group.
C24_GroupsSequentialInOrder ==
    \A c \in CallIds :
        LET k  == calls[c]
            ms == SentBy(c)
        IN  /\ \A i, j \in DOMAIN k.groups :
                  i < j => FirstSeen(k.orders, k.groups[i].chain)
                              < FirstSeen(k.orders, k.groups[j].chain)
            /\ Len(ms) <= Len(k.groups)
            /\ \A i \in DOMAIN ms : ms[i].to = k.groups[i].chain
            /\ k.pc \in {"nonce", "send"} =>
                  /\ Len(ms) = k.gi - 1
                  /\ \A i \in DOMAIN ms : ms[i].accepted
            /\ k.pc = "done" => Len(ms) = Len(k.groups)

C24_Witness ==
    \E c \in CallIds :
        /\ calls[c].pc = "done"
        /\ Len(calls[c].groups) = 2
        /\ Len(SentBy(c)) = 2

\* C25: the nonce is queried once per group, between the previous group's send
\* and the group's own send, and the message carries the answer of that query:
\* a call at the nonce request of group i has made i nonce requests and i-1
\* sends, a call at the send of group i has made i of each and holds a nonce
\* the endpoint gave out after the previous message of the call was accepted,
\* and so the nonces of the successive messages of one call strictly increase.
C25_NonceQueriedPerGroup ==
    \A c \in CallIds :
        LET k  == calls[c]
            ms == SentBy(c)
        IN  /\ k.pc = "nonce" => k.reqs = 2 * k.gi - 1
            /\ k.pc = "send" => k.reqs = 2 * k.gi
            /\ k.pc = "done" => k.reqs = 2 * Len(k.groups)
            /\ (k.pc = "send" /\ k.nonce # Undefined) =>
                  /\ k.nonce <= counter[k.target]
                  /\ (ms # <<>> /\ ms[Len(ms)].nonce # Undefined) =>
                        k.nonce > ms[Len(ms)].nonce
            /\ \A i \in DOMAIN ms : \A j \in DOMAIN ms :
                  (i < j /\ ms[i].nonce # Undefined /\ ms[j].nonce # Undefined)
                  => ms[i].nonce < ms[j].nonce

C25_Witness ==
    \E c \in CallIds :
        LET ms == SentBy(c) IN
        /\ calls[c].pc = "done"
        /\ Len(ms) = 2
        /\ ms[1].nonce # Undefined /\ ms[2].nonce # Undefined

\* The orders of orders that go to chain ch, in input order.
OrdersFor(orders, ch) ==
    SelectSeq(orders, LAMBDA o : getMarketChainId(o.marketId) = ch)

\* C26: submitBatchedOrders partitions its input: the groups are one per
\* destination chain of the input, each holds the input's orders for its chain
\* in input order, every grouped order keeps its market and its own id, or has
\* a generated one if it had none, and has a timestamp and status pending;
\* every message carries the origin, the destination, its group's full order
\* list, a nonce and a timestamp.
C26_GroupsPartitionInput ==
    \A c \in CallIds :
        LET k  == calls[c]
            ms == SentBy(c)
        IN  /\ k.groups # <<>> =>
                  {k.groups[g].chain : g \in DOMAIN k.groups} = Destinations(k.orders)
            /\ \A g, h \in DOMAIN k.groups : g # h => k.groups[g].chain # k.groups[h].chain
            /\ \A g \in DOMAIN k.groups :
                  LET in  == OrdersFor(k.orders, k.groups[g].chain)
                      out == k.groups[g].orders
                  IN  /\ Len(out) = Len(in)
                      /\ \A p \in DOMAIN out :
                            /\ out[p].marketId = in[p].marketId
                            /\ IF in[p].id # 0 THEN out[p].id = in[p].id
                               ELSE out[p].id \in [prefix : {"order_"}, at : 0..MaxTime]
                            /\ out[p].timestamp \in 0..now
                            /\ out[p].status = "pending"
            /\ \A i \in DOMAIN ms :
                  /\ i \in DOMAIN k.groups
                  /\ ms[i].from = k.target
                  /\ ms[i].to = k.groups[i].chain
                  /\ ms[i].orders = k.groups[i].orders
                  /\ ms[i].nonce # Undefined
                  /\ ms[i].timestamp \in 0..now

\* C27: a subscription goes opening -> subscribed -> closed: its subscribe
\* control message is sent at most once, and only in the step in which its
\* channel goes from connecting to open, which never happens once unsubscribe
\* was called or the channel failed.
C27_SubscribeOnceWhenReady ==
    [][\A s \in SockIds :
          /\ sockets'[s].subSent <= 1
          /\ sockets'[s].subSent # sockets[s].subSent =>
                /\ sockets[s].state = "CONNECTING"
                /\ sockets'[s].state = "OPEN"
                /\ sockets[s].subSent = 0
                /\ sockets[s].unsubCalls = 0
                /\ ~sockets[s].errored]_vars

C27_Witness ==
    \E s, t \in SockIds :
        /\ sockets[s].state = "CLOSED" /\ sockets[s].subSent = 1
        /\ sockets[s].unsubCalls > 0
        /\ sockets[t].state = "CLOSED" /\ sockets[t].subSent = 0
        /\ sockets[t].unsubCalls > 0 /\ ~sockets[t].errored

\* C28: at most one flush timer is pending; addToBatchQueue puts the item at
\* the tail of the queue, and while a timer is pending it starts none and
\* leaves the pending one as it is.
C28_SingleFlushTimer ==
    [][/\ Cardinality(armed') <= 1
       /\ \A m \in Markets :
             AddToBatchQueue(m) =>
                /\ Len(batchQueue') = Len(batchQueue) + 1
                /\ SubSeq(batchQueue', 1, Len(batchQueue)) = batchQueue
                /\ batchQueue'[Len(batchQueue')].marketId = m
                /\ armed # {} => (armed' = armed /\ batchTimer' = batchTimer)
                /\ armed' # armed => (armed = {} /\ armed' = {batchTimer'})]_vars

C28_Witness ==
    /\ Len(batchQueue) = 2
    /\ Cardinality(armed) = 1
    /\ timerSeq = 1
    /\ flushes = <<>>

\* C29: a flush that finds the queue empty starts no submitBatchedOrders call,
\* sends nothing, emits no event and leaves the queue, the session and the
\* cache as they are.
C29_EmptyFlushNoOp ==
    [][(batchQueue = <<>> /\ (Flush \/ \E h \in armed : TimerFire(h))) =>
          /\ calls' = calls /\ sent' = sent /\ counter' = counter
          /\ events' = events
          /\ batchQueue' = batchQueue
          /\ wallet' = wallet /\ conn' = conn
          /\ cache' = cache /\ cacheTimers' = cacheTimers]_vars

C29_Witness ==
    /\ lastFlush = "empty"
    /\ batchQueue = <<>>
    /\ wallet.set
    /\ \E i \in DOMAIN events : events[i].type = "batch-success"

\* The registration call of a connect succeeds.
RegistrationSucceeds ==
    \/ \E ch \in Chains : DynRegister(TRUE, ch)
    \/ LinRegister(TRUE)

\* C30 as stated: in a successful connect of either strategy the Session is
\* populated, then the chain is registered, then the balance is fetched: when
\* the registration succeeds, the session is populated and the balance has not
\* been fetched yet.
C30_SessionRegistrationBalance ==
    [][RegistrationSucceeds => conn.log = <<"session">>]_vars

\* C30, amended: in a successful connect of either strategy the registration
\* is the last step, made after the Session was populated and the balance
\* fetched: the Dynamic strategy populates the Session, fetches the balance and
\* registers, the Linera strategy fetches the balance, populates the Session
\* and registers.
C30_RegistrationLast ==
    [][/\ \A ch \in Chains :
             DynRegister(TRUE, ch) => conn.log = <<"session", "balance">>
       /\ LinRegister(TRUE) => conn.log = <<"balance", "session">>]_vars

C30_Witness ==
    /\ conn.pc = "idle"
    /\ wallet.set
    /\ wallet.userChainId \in Chains
    /\ calls = [c \in CallIds |-> IdleCall]
    /\ itemSeq = 0

\* C31: unsubscribe() on a handle touches that subscription only: the batch
\* queue, the flush timer, the session, the cache and the submitBatchedOrders
\* calls with their requests and messages stay as they are, and so does every
\* other subscription, its channel and its registry entry.
C31_UnsubscribeTouchesOwnOnly ==
    [][\A s \in SockIds :
          Unsubscribe(s) =>
              /\ UNCHANGED <<batchVars, sessionVars, callVars, cache, cacheTimers>>
              /\ \A t \in SockIds \ {s} :
                    /\ sockets'[t] = sockets[t]
                    /\ t \in Registered => t \in {e.sock : e \in subscriptions'}]_vars

\* C33: getCachedData returns the payload of a key exactly when the key is in
\* the store and the age of its entry is below the market-list TTL, whatever
\* ttl the entry was stored with.
C33_StalenessAgainstListTtl ==
    [][\A k \in Keys :
          GetCachedData(k) =>
              /\ lastGet'.hit <=>
                    (cache[k].present /\ now - cache[k].timestamp < CACHE_TTL_MARKET_LIST)
              /\ lastGet'.hit => lastGet'.data = cache[k].data]_vars

\* A read missed an entry that is in the store, at an age below the ttl the
\* entry was stored with.
C33_Witness ==
    /\ lastGet.done /\ ~lastGet.hit
    /\ cache[lastGet.key].present
    /\ lastGet.set.done
    /\ cache[lastGet.key].timestamp = lastGet.set.at
    /\ lastGet.at - lastGet.set.at < lastGet.set.ttl

\* C32: a queryMarkets call for a key whose latest fetch was cached less than
\* the market-list TTL ago returns the cached payload and issues no request,
\* whatever that payload is.
C32_NoRedundantQuery ==
    [][\A f \in Filters :
          LET k == MarketsKey(f) IN
          (QueryMarkets(f) /\ lastSet[k].done
              /\ now - lastSet[k].at < CACHE_TTL_MARKET_LIST) =>
                /\ query'.pc = "done"
                /\ query'.hit
                /\ query'.data = lastSet[k].data]_vars

\* C34: no enqueued order is lost: every order that was enqueued is in the
\* queue or was handed to the dispatcher by a flush.
C34_NoOrderLost ==
    \A n \in 1..itemSeq :
        \/ n \in ItemIds(batchQueue)
        \/ \E i \in DOMAIN flushes : n \in ItemIds(flushes[i].handed)

\* The flush (in flushes) that call c is, calls and flushes both being numbered
\* in start order.
FlushIndex(c) == Cardinality({d \in 1..c : calls[d].kind = "flush"})

\* The messages the endpoint accepted that carry the enqueued order n: those of
\* a flush that was handed n, to the chain of n's market.
Deliveries(n) ==
    {i \in DOMAIN sent :
        /\ sent[i].accepted
        /\ calls[sent[i].call].kind = "flush"
        /\ \E p \in DOMAIN flushes[FlushIndex(sent[i].call)].handed :
              LET item == flushes[FlushIndex(sent[i].call)].handed[p] IN
              item.id = n /\ sent[i].to = getMarketChainId(item.marketId)}

\* C35: no enqueued order is delivered to the dispatch endpoint more than once.
C35_NoDuplicateDelivery ==
    \A n \in 1..itemSeq : Cardinality(Deliveries(n)) <= 1

\* C36: no order is stranded: whenever the batch queue is not empty, a flush
\* timeout is pending or a flush is in progress.
C36_NoOrderStranded ==
    batchQueue # <<>> =>
        \/ armed # {}
        \/ \E c \in CallIds : calls[c].kind = "flush" /\ calls[c].pc \in {"nonce", "send"}

\* C37: a connectWallet call that was in flight when disconnectWallet ran does
\* not re-create the session: while a connect that had set the wallet waits
\* for its balance or registration request and the wallet is null, which only
\* a disconnectWallet in between brings about, no step sets the wallet.
C37_DisconnectIsFinal ==
    [][(conn.pc \in {"dyn_balance", "dyn_register", "lin_register"} /\ ~wallet.set)
          => ~wallet'.set]_vars

\* C38: every channel that was opened by a subscribe call, is connecting or
\* open and was not unsubscribed is in the subscription registry under its id.
C38_ActiveChannelsRegistered ==
    \A s \in SockIds :
        (sockets[s].state \in {"CONNECTING", "OPEN"} /\ sockets[s].unsubCalls = 0) =>
            [id |-> sockets[s].id, sock |-> s] \in subscriptions

\* C39: orders are dispatched only under the session they were enqueued in:
\* every message that carries the orders for the market enqueued in the
\* sessions on user chain ch goes out from ch.
C39_DispatchedUnderOwnSession ==
    \A i \in DOMAIN sent : \A ch \in Chains :
        sent[i].to = getMarketChainId(MarketOf(ch)) => sent[i].from = ch

\* C40: routing keeps unregistered markets apart: once the caller's marketId,
\* absent from the static registry, is resolved, no other marketId absent from
\* the registry resolves to the same chain identifier (the fallback chain
\* identifier is injective in the marketId).
C40_FallbackInjective ==
    (rs # <<>> /\ RegistryFind(rq) = {}) =>
        \A m \in MarketIds :
            (m # rq /\ RegistryFind(m) = {}) => getMarketChainId(m) # rs

====
